---- MODULE Spec2Model ----
(***************************************************************************)
(* Healthcare AI backend: the /chat pipeline (classification, document     *)
(* selection, composition, emergency detection, confidence) of             *)
(* src/app/main.py and src/app/rag/rag_service.py, and the appointment     *)
(* endpoints of src/app/main.py.                                           *)
(*                                                                         *)
(* Text is a sequence of one-character strings, so that strip, upper,      *)
(* lower and the substring test `in` are computed character by character.  *)
(***************************************************************************)
EXTENDS Integers, Sequences, FiniteSets, TLC

VARIABLES
  \* ---- one /chat request (src/app/main.py, chat)
  pc,                     \* position of the handler: idle, classifying, retrieving, composing, done
  message,                \* request.message
  user_message,           \* request.message.strip()
  classification_result,  \* provider outcome of the classification call
  is_healthcare,          \* normalised classifier reply
  data,                   \* provider outcome of the selection call (rag_service.py)
  context_docs,           \* llm_select_documents(user_message)
  result,                 \* provider outcome of the composition call
  returned,               \* what the handler hands back to the caller
  calls,                  \* provider round trips of this request, in issue order
  \* ---- llm_select_documents on its own (src/app/rag/rag_service.py)
  sel_data,               \* provider outcome handed to the selector
  sel_out,                \* what the selector gave back
  \* ---- users and appointments (src/app/main.py, src/app/database/models.py)
  users,                  \* rows of table users
  tokens,                 \* usernames holding an access token
  appointments,           \* rows of table appointments
  owned,                  \* history: per username, the rows it created and has not deleted
  http                    \* last response of an appointment/auth endpoint

chatVars == <<pc, message, user_message, classification_result, is_healthcare, data,
              context_docs, result, returned, calls>>
selVars  == <<sel_data, sel_out>>
apptVars == <<users, tokens, appointments, owned, http>>
vars     == <<chatVars, selVars, apptVars>>

-----------------------------------------------------------------------------
(* Bounds of the model *)

\* a request message is a concatenation of at most this many MsgChunks
MaxMsgChunks == 3
\* a classifier reply is a concatenation of at most this many ReplyChunks
MaxReplyChunks == 2
\* a selection reply is a concatenation of at most this many SelChunks
MaxSelChunks == 2
\* appointment ids range over 1..MaxApptId
MaxApptId == 3

-----------------------------------------------------------------------------
(* The Document Store: src/app/rag/nhs_documents.py *)

\* High blood pressure (hypertension) means your blood pressure is consistently too high. It
\* can increase your risk of heart disease and stroke.
Doc1 ==
  <<"H","i","g","h"," ","b","l","o","o","d"," ","p","r","e","s","s","u","r","e"," ","(","h",
    "y","p","e","r","t","e","n","s","i","o","n",")"," ","m","e","a","n","s"," ","y","o","u",
    "r"," ","b","l","o","o","d"," ","p","r","e","s","s","u","r","e"," ","i","s"," ","c","o",
    "n","s","i","s","t","e","n","t","l","y"," ","t","o","o"," ","h","i","g","h","."," ","I",
    "t"," ","c","a","n"," ","i","n","c","r","e","a","s","e"," ","y","o","u","r"," ","r","i",
    "s","k"," ","o","f"," ","h","e","a","r","t"," ","d","i","s","e","a","s","e"," ","a","n",
    "d"," ","s","t","r","o","k","e",".">>

\* Asthma is a common lung condition that causes occasional breathing difficulties. It can
\* usually be controlled well with inhalers.
Doc2 ==
  <<"A","s","t","h","m","a"," ","i","s"," ","a"," ","c","o","m","m","o","n"," ","l","u","n",
    "g"," ","c","o","n","d","i","t","i","o","n"," ","t","h","a","t"," ","c","a","u","s","e",
    "s"," ","o","c","c","a","s","i","o","n","a","l"," ","b","r","e","a","t","h","i","n","g",
    " ","d","i","f","f","i","c","u","l","t","i","e","s","."," ","I","t"," ","c","a","n"," ",
    "u","s","u","a","l","l","y"," ","b","e"," ","c","o","n","t","r","o","l","l","e","d"," ",
    "w","e","l","l"," ","w","i","t","h"," ","i","n","h","a","l","e","r","s",".">>

\* To book a GP appointment in the UK, you can contact your GP surgery by phone, use their
\* website, or use the NHS App.
Doc3 ==
  <<"T","o"," ","b","o","o","k"," ","a"," ","G","P"," ","a","p","p","o","i","n","t","m","e",
    "n","t"," ","i","n"," ","t","h","e"," ","U","K",","," ","y","o","u"," ","c","a","n"," ",
    "c","o","n","t","a","c","t"," ","y","o","u","r"," ","G","P"," ","s","u","r","g","e","r",
    "y"," ","b","y"," ","p","h","o","n","e",","," ","u","s","e"," ","t","h","e","i","r"," ",
    "w","e","b","s","i","t","e",","," ","o","r"," ","u","s","e"," ","t","h","e"," ","N","H",
    "S"," ","A","p","p",".">>

\* Chest pain can be a symptom of serious conditions such as heart attack. If chest pain is
\* severe or accompanied by shortness of breath, call emergency services immediately.
Doc4 ==
  <<"C","h","e","s","t"," ","p","a","i","n"," ","c","a","n"," ","b","e"," ","a"," ","s","y",
    "m","p","t","o","m"," ","o","f"," ","s","e","r","i","o","u","s"," ","c","o","n","d","i",
    "t","i","o","n","s"," ","s","u","c","h"," ","a","s"," ","h","e","a","r","t"," ","a","t",
    "t","a","c","k","."," ","I","f"," ","c","h","e","s","t"," ","p","a","i","n"," ","i","s",
    " ","s","e","v","e","r","e"," ","o","r"," ","a","c","c","o","m","p","a","n","i","e","d",
    " ","b","y"," ","s","h","o","r","t","n","e","s","s"," ","o","f"," ","b","r","e","a","t",
    "h",","," ","c","a","l","l"," ","e","m","e","r","g","e","n","c","y"," ","s","e","r","v",
    "i","c","e","s"," ","i","m","m","e","d","i","a","t","e","l","y",".">>

\* The NHS App allows patients to book appointments, order repeat prescriptions, and view
\* their GP health record.
Doc5 ==
  <<"T","h","e"," ","N","H","S"," ","A","p","p"," ","a","l","l","o","w","s"," ","p","a","t",
    "i","e","n","t","s"," ","t","o"," ","b","o","o","k"," ","a","p","p","o","i","n","t","m",
    "e","n","t","s",","," ","o","r","d","e","r"," ","r","e","p","e","a","t"," ","p","r","e",
    "s","c","r","i","p","t","i","o","n","s",","," ","a","n","d"," ","v","i","e","w"," ","t",
    "h","e","i","r"," ","G","P"," ","h","e","a","l","t","h"," ","r","e","c","o","r","d",".">>

\* documents, in store order
documents == <<Doc1, Doc2, Doc3, Doc4, Doc5>>

-----------------------------------------------------------------------------
(* Text: Python str operations used by the handlers *)

\* the ASCII whitespace str.strip() removes (vertical tab has no TLA+ escape)
Whitespace == {" ", "\t", "\n", "\r", "\f"}

UpperAlpha == <<"A","B","C","D","E","F","G","H","I","J","K","L","M",
                "N","O","P","Q","R","S","T","U","V","W","X","Y","Z">>
LowerAlpha == <<"a","b","c","d","e","f","g","h","i","j","k","l","m",
                "n","o","p","q","r","s","t","u","v","w","x","y","z">>

upper_char(c) ==
  IF \E i \in 1..Len(LowerAlpha) : LowerAlpha[i] = c
  THEN UpperAlpha[CHOOSE i \in 1..Len(LowerAlpha) : LowerAlpha[i] = c]
  ELSE c

lower_char(c) ==
  IF \E i \in 1..Len(UpperAlpha) : UpperAlpha[i] = c
  THEN LowerAlpha[CHOOSE i \in 1..Len(UpperAlpha) : UpperAlpha[i] = c]
  ELSE c

\* str.upper()
upper(s) == [i \in 1..Len(s) |-> upper_char(s[i])]

\* str.lower()
lower(s) == [i \in 1..Len(s) |-> lower_char(s[i])]

\* a strip that removes nothing
strip_missing(s) == s

\* str.strip(): drop leading and trailing whitespace
strip(s) ==
  LET keep == {i \in 1..Len(s) : s[i] \notin Whitespace}
  IN  IF keep = {} THEN <<>>
      ELSE SubSeq(s, CHOOSE i \in keep : \A k \in keep : i <= k,
                     CHOOSE j \in keep : \A k \in keep : k <= j)

\* `word in s` on str: word occurs in s as a contiguous run
Contains(word, s) ==
  \E i \in 0..(Len(s) - Len(word)) : \A j \in 1..Len(word) : s[i + j] = word[j]

\* every concatenation of at most n members of chunks
RECURSIVE Concats(_, _)
Concats(chunks, n) ==
  IF n = 0 THEN {<<>>}
  ELSE LET shorter == Concats(chunks, n - 1)
       IN  shorter \cup {p \o c : p \in shorter, c \in chunks}

-----------------------------------------------------------------------------
(* The LLM provider: what one requests.post(...).json() round trip can give *)

None == [kind |-> "none"]

\* requests.post or response.json() raised (transport failure, non-JSON body)
ProviderException == [kind |-> "exception"]
\* a JSON object without the key "choices" (the provider's error shape)
NoChoices == [kind |-> "no_choices"]
\* "choices" is present but choices[0]["message"]["content"] does not exist
BadChoices == [kind |-> "bad_choices"]
\* choices[0]["message"]["content"] = content
Completion(content) == [kind |-> "completion", content |-> content]

ProviderFailures == {ProviderException, NoChoices, BadChoices}

KwChestPain == <<"c","h","e","s","t"," ","p","a","i","n">>
KwStroke == <<"s","t","r","o","k","e">>
KwHeartAttack == <<"h","e","a","r","t"," ","a","t","t","a","c","k">>
KwUnconscious == <<"u","n","c","o","n","s","c","i","o","u","s">>
KwSevereBleeding == <<"s","e","v","e","r","e"," ","b","l","e","e","d","i","n","g">>
KwCantBreathe == <<"c","a","n","'","t"," ","b","r","e","a","t","h","e">>
KwSuicidal == <<"s","u","i","c","i","d","a","l">>
KwOverdose == <<"o","v","e","r","d","o","s","e">>
TxtYES == <<"Y","E","S">>
TxtYes == <<"Y","e","s">>
TxtNO == <<"N","O">>
TxtStroke == <<"S","t","r","o","k","e">>
TxtOver == <<"O","v","e","r">>
TxtDose == <<"d","o","s","e">>
TxtParaphrase == <<"A","s","t","h","m","a"," ","i","s"," ","a"," ","c","o","m","m","o","n"," ","l","u","n",
    "g"," ","c","o","n","d","i","t","i","o","n",".">>
TxtOk == <<"o","k">>

Doc5Head == SubSeq(Doc5, 1, Len(Doc5) \div 2)
Doc5Tail == SubSeq(Doc5, Len(Doc5) \div 2 + 1, Len(Doc5))

\* request messages
MsgChunks == {<<" ">>, TxtStroke, TxtOver, TxtDose}
Messages == Concats(MsgChunks, MaxMsgChunks)

\* classifier replies
ReplyChunks == {<<"\n">>, TxtYES, TxtYes, TxtNO, <<".">>}
ClassificationOutcomes ==
  ProviderFailures \cup {Completion(c) : c \in Concats(ReplyChunks, MaxReplyChunks)}

\* selection replies: verbatim documents, a document cut in two, a paraphrase, separators
SelChunks == {Doc1, Doc2, Doc4, Doc5Head, Doc5Tail, TxtParaphrase, <<"\n">>}
SelectionOutcomes ==
  ProviderFailures \cup {Completion(c) : c \in Concats(SelChunks, MaxSelChunks)}

\* selection replies seen by a /chat request
ChatSelectionOutcomes ==
  ProviderFailures \cup
    {Completion(c) : c \in {<<>>, Doc1, Doc4 \o <<"\n">> \o Doc1, TxtParaphrase}}

\* composition replies
CompositionOutcomes == ProviderFailures \cup {Completion(TxtOk)}

-----------------------------------------------------------------------------
(* Document Selector: src/app/rag/rag_service.py *)

\* matching on the first sentence of a document only
selected_docs_by_prefix(content) ==
  SelectSeq(documents, LAMBDA doc : Contains(SubSeq(doc, 1, Len(TxtParaphrase) - 1), content))

\* lines 55-58: for doc in documents: if doc in content: selected_docs.append(doc)
selected_docs(content) ==
  SelectSeq(documents, LAMBDA doc : Contains(doc, content))

Raised == [raised |-> TRUE, docs |-> <<>>]
Returned(docs) == [raised |-> FALSE, docs |-> docs]

\* a selector that lets the missing "choices" surface as KeyError
llm_select_documents_unguarded(d) ==
  IF d.kind = "completion" THEN Returned(selected_docs(d.content)) ELSE Raised

\* llm_select_documents, from the provider outcome on
llm_select_documents(d) ==
  IF d.kind = "exception" THEN Raised                     \* line 33 / 46 raises
  ELSE IF d.kind = "no_choices" THEN Returned(<<>>)       \* lines 48-50
  ELSE IF d.kind = "bad_choices" THEN Raised              \* line 52 raises
  ELSE Returned(selected_docs(d.content))                 \* lines 52-60

-----------------------------------------------------------------------------
(* /chat: src/app/main.py *)

PleaseEnterText == <<"Please enter a healthcare-related question.">>
RefusalText ==
  <<"I am a healthcare assistant and can only respond to medical or healthcare-related questions.\n\nPlease use a general assistant for non-health topics.">>
UrgentNotice ==
  <<"\n\n(warning sign) URGENT: Call 999 immediately if life-threatening.\nFor urgent but non-life-threatening medical help, contact NHS 111.">>

ChatResponse(response, sources, confidence, emergency) ==
  [kind |-> "ChatResponse", response |-> response, sources |-> sources,
   confidence |-> confidence, emergency |-> emergency]

HTTPException(status_code, detail) ==
  [kind |-> "HTTPException", status_code |-> status_code, detail |-> detail]

\* an exception no handler catches: the framework answers 500
InternalServerError ==
  [kind |-> "Exception", status_code |-> 500, detail |-> "Internal Server Error"]

PleaseEnter == ChatResponse(PleaseEnterText, <<>>, "Not Applicable", FALSE)
Refusal == ChatResponse(RefusalText, <<>>, "Not Applicable", FALSE)

\* a missing completion answered as if the classifier had said NO
classification_error_as_refusal == Refusal

\* lines 157-158
classification_error == HTTPException(500, "Classification error")

\* lines 206-207
llm_error == HTTPException(500, "LLM error")

\* the reply compared as it came
normalise_without_strip(content) == upper(content)

\* line 160: content.strip().upper()
normalise(content) == upper(strip(content))

\* a gate that lets every reply through
out_of_scope_never(reply) == FALSE

\* line 162: is_healthcare != "YES"
out_of_scope(reply) == reply # TxtYES

high_risk_keywords ==
  <<KwChestPain, KwStroke, KwHeartAttack, KwUnconscious, KwSevereBleeding,
    KwCantBreathe, KwSuicidal, KwOverdose>>

\* the keywords matched against the message as typed
is_emergency_case_sensitive(um) ==
  \E k \in 1..Len(high_risk_keywords) : Contains(high_risk_keywords[k], um)

\* line 217: any(word in user_message.lower() for word in high_risk_keywords)
is_emergency(um) ==
  \E k \in 1..Len(high_risk_keywords) : Contains(high_risk_keywords[k], lower(um))

\* the document count ignored
confidence_always_high(emergency, docs) ==
  IF emergency THEN "High (Emergency Identified)" ELSE "High"

\* lines 225-229
confidence(emergency, docs) ==
  IF emergency THEN "High (Emergency Identified)"
  ELSE IF docs # <<>> THEN "High" ELSE "Medium"

\* lines 231-234
formatted_sources(docs) ==
  [i \in 1..Len(docs) |-> [title |-> "NHS Guidance", content |-> docs[i]]]

\* a round trip issued again after it was issued
post_with_retry(cs, call) == cs \o <<call, call>>

\* requests.post: one blocking round trip to the provider
post(cs, call) == Append(cs, call)

ChatIdle ==
  /\ pc = "idle"
  /\ message = <<>>
  /\ user_message = <<>>
  /\ classification_result = None
  /\ is_healthcare = <<>>
  /\ data = None
  /\ context_docs = <<>>
  /\ result = None
  /\ returned = None
  /\ calls = <<>>

\* lines 119-153: strip, the blank check, the classification call
ChatReceive(m) ==
  /\ pc = "idle"
  /\ message' = m
  /\ user_message' = strip(m)
  /\ IF user_message' = <<>>
     THEN /\ returned' = PleaseEnter
          /\ pc' = "done"
          /\ calls' = calls
     ELSE /\ calls' = post(calls, "classification")
          /\ pc' = "classifying"
          /\ returned' = returned
  /\ UNCHANGED <<classification_result, is_healthcare, data, context_docs, result>>
  /\ UNCHANGED <<selVars, apptVars>>

\* lines 155-173 and rag_service.py 18-44: the classifier's answer, the refusal,
\* the selection call
ChatClassified(o) ==
  /\ pc = "classifying"
  /\ classification_result' = o
  /\ IF o.kind = "exception" \/ o.kind = "bad_choices"
     THEN /\ returned' = InternalServerError
          /\ pc' = "done"
          /\ UNCHANGED <<is_healthcare, calls>>
     ELSE IF o.kind = "no_choices"
     THEN /\ returned' = classification_error
          /\ pc' = "done"
          /\ UNCHANGED <<is_healthcare, calls>>
     ELSE /\ is_healthcare' = normalise(o.content)
          /\ IF out_of_scope(is_healthcare')
             THEN /\ returned' = Refusal
                  /\ pc' = "done"
                  /\ calls' = calls
             ELSE /\ calls' = post(calls, "selection")
                  /\ pc' = "retrieving"
                  /\ returned' = returned
  /\ UNCHANGED <<message, user_message, data, context_docs, result>>
  /\ UNCHANGED <<selVars, apptVars>>

\* rag_service.py 46-60 and main.py 173-202: the selector's answer, the composition call
ChatSelected(o) ==
  /\ pc = "retrieving"
  /\ data' = o
  /\ LET r == llm_select_documents(o)
     IN  IF r.raised
         THEN /\ returned' = InternalServerError
              /\ pc' = "done"
              /\ UNCHANGED <<context_docs, calls>>
         ELSE /\ context_docs' = r.docs
              /\ calls' = post(calls, "composition")
              /\ pc' = "composing"
              /\ returned' = returned
  /\ UNCHANGED <<message, user_message, classification_result, is_healthcare, result>>
  /\ UNCHANGED <<selVars, apptVars>>

\* lines 204-241: the composer's answer, emergency detection, confidence, the payload
ChatComposed(o) ==
  /\ pc = "composing"
  /\ result' = o
  /\ IF o.kind = "exception" \/ o.kind = "bad_choices"
     THEN returned' = InternalServerError
     ELSE IF o.kind = "no_choices"
     THEN returned' = llm_error
     ELSE LET emergency == is_emergency(user_message)
              reply == IF emergency THEN o.content \o UrgentNotice ELSE o.content
          IN  returned' = ChatResponse(reply, formatted_sources(context_docs),
                                       confidence(emergency, context_docs), emergency)
  /\ pc' = "done"
  /\ UNCHANGED <<message, user_message, classification_result, is_healthcare, data,
                 context_docs, calls>>
  /\ UNCHANGED <<selVars, apptVars>>

\* the response is sent; nothing of the request outlives it
ChatDone ==
  /\ pc = "done"
  /\ pc' = "idle"
  /\ message' = <<>>
  /\ user_message' = <<>>
  /\ classification_result' = None
  /\ is_healthcare' = <<>>
  /\ data' = None
  /\ context_docs' = <<>>
  /\ result' = None
  /\ returned' = None
  /\ calls' = <<>>
  /\ UNCHANGED <<selVars, apptVars>>

-----------------------------------------------------------------------------
(* llm_select_documents on its own *)

SelectIdle == sel_data = None /\ sel_out = None

\* rag_service.py 18-60: one call of the selector on one provider outcome
SelectDocuments ==
  /\ sel_out = None
  /\ sel_out' = llm_select_documents(sel_data)
  /\ UNCHANGED <<sel_data, chatVars, apptVars>>

-----------------------------------------------------------------------------
(* Users and appointments: src/app/main.py, src/app/database/models.py *)

Usernames == {"alice", "bob"}
Passwords == {"pw1", "pw2"}
Titles == {"GP checkup"}
Recurrings == {"none", "weekly"}
TimeInputs == {"2026-01-05", "2026-01-05T00:00:00", "next monday"}

\* app.auth.hash_password
hash_password(password) == <<"hashed", password>>

\* app.auth.verify_password
verify_password(password, hashed) == hashed = hash_password(password)

\* app.auth.verify_token: the dependency hands the handler the token's username
verify_token(username) == username \in tokens

\* datetime.fromisoformat: the inputs it parses, and the value it gives
IsIsoFormat(s) == s \in {"2026-01-05", "2026-01-05T00:00:00"}
fromisoformat(s) == [date |-> "2026-01-05", time |-> "00:00:00"]

\* datetime.isoformat
isoformat(dt) == <<dt.date, "T", dt.time>>

Ok(text) == [kind |-> "ok", message |-> text]

\* db.query(User).filter(User.username == username).first()
user_by_name(username) ==
  IF \E u \in users : u.username = username
  THEN CHOOSE u \in users : u.username = username
  ELSE None

ApptInit ==
  /\ users = {}
  /\ tokens = {}
  /\ appointments = {}
  /\ owned = [u \in Usernames |-> {}]
  /\ http = None

\* lines 83-98
register(username, password) ==
  /\ IF user_by_name(username) # None
     THEN /\ http' = HTTPException(400, "Username already exists")
          /\ users' = users
     ELSE /\ users' = users \cup {[id |-> Cardinality(users) + 1, username |-> username,
                                   hashed_password |-> hash_password(password)]}
          /\ http' = Ok("User registered successfully")
  /\ UNCHANGED <<tokens, appointments, owned, chatVars, selVars>>

\* lines 101-109
login(username, password) ==
  /\ LET user == user_by_name(username)
     IN  IF user = None \/ ~verify_password(password, user.hashed_password)
         THEN /\ http' = HTTPException(400, "Invalid username or password")
              /\ tokens' = tokens
         ELSE /\ tokens' = tokens \cup {user.username}
              /\ http' = [kind |-> "token", token_type |-> "bearer", sub |-> user.username]
  /\ UNCHANGED <<users, appointments, owned, chatVars, selVars>>

\* the primary key the database gives a new row: above every id in the table
NewIds == {i \in 1..MaxApptId : \A a \in appointments : a.id < i}

\* lines 248-266
create_appointment(username, title, appointment_time, recurring) ==
  /\ verify_token(username)
  /\ LET user == user_by_name(username)
     IN  IF ~IsIsoFormat(appointment_time)
         THEN /\ http' = InternalServerError          \* line 258 raises ValueError
              /\ UNCHANGED <<appointments, owned>>
         ELSE \E id \in NewIds :
                LET appointment == [id |-> id, title |-> title,
                                    appointment_time |-> fromisoformat(appointment_time),
                                    recurring |-> recurring, user_id |-> user.id]
                IN  /\ appointments' = appointments \cup {appointment}
                    /\ owned' = [owned EXCEPT ![username] = @ \cup {appointment}]
                    /\ http' = Ok("Appointment saved successfully")
  /\ UNCHANGED <<users, tokens, chatVars, selVars>>

\* lines 278-286: one row as the response shows it
appointment_json(appt) ==
  [id |-> appt.id, title |-> appt.title,
   appointment_time |-> isoformat(appt.appointment_time), recurring |-> appt.recurring]

\* line 276: db.query(Appointment).filter(Appointment.user_id == user.id).all()
appointments_of(user_id) == {a \in appointments : a.user_id = user_id}

\* lines 269-286
get_appointments(username) ==
  /\ verify_token(username)
  /\ LET user == user_by_name(username)
     IN  http' = [kind |-> "appointments", username |-> username,
                  body |-> {appointment_json(a) : a \in appointments_of(user.id)}]
  /\ UNCHANGED <<users, tokens, appointments, owned, chatVars, selVars>>

\* the row looked up by id alone
find_appointment_by_id(appointment_id, user_id) ==
  {a \in appointments : a.id = appointment_id}

\* lines 297-300: filter(Appointment.id == appointment_id, Appointment.user_id == user.id)
find_appointment(appointment_id, user_id) ==
  {a \in appointments : a.id = appointment_id /\ a.user_id = user_id}

\* lines 289-308
delete_appointment(username, appointment_id) ==
  /\ verify_token(username)
  /\ LET user == user_by_name(username)
         found == find_appointment(appointment_id, user.id)
     IN  IF found = {}
         THEN /\ http' = HTTPException(404, "Appointment not found")
              /\ UNCHANGED <<appointments, owned>>
         ELSE /\ appointments' = appointments \ found
              /\ owned' = [owned EXCEPT ![username] = {a \in @ : a.id # appointment_id}]
              /\ http' = Ok("Appointment deleted successfully")
  /\ UNCHANGED <<users, tokens, chatVars, selVars>>

-----------------------------------------------------------------------------
(* Specifications *)

\* one /chat request after another
Init == ChatIdle /\ SelectIdle /\ ApptInit

Next ==
  \/ \E m \in Messages : ChatReceive(m)
  \/ \E o \in ClassificationOutcomes : ChatClassified(o)
  \/ \E o \in ChatSelectionOutcomes : ChatSelected(o)
  \/ \E o \in CompositionOutcomes : ChatComposed(o)
  \/ ChatDone

Spec == Init /\ [][Next]_vars

\* the selector applied to every provider outcome
InitSelect == ChatIdle /\ ApptInit /\ sel_data \in SelectionOutcomes /\ sel_out = None

NextSelect == SelectDocuments

SpecSelect == InitSelect /\ [][NextSelect]_vars

\* the auth and appointment endpoints, called in any order by any user
InitAppt == ChatIdle /\ SelectIdle /\ ApptInit

NextAppt ==
  \/ \E u \in Usernames, p \in Passwords : register(u, p)
  \/ \E u \in Usernames, p \in Passwords : login(u, p)
  \/ \E u \in Usernames, t \in Titles, at \in TimeInputs, r \in Recurrings :
       create_appointment(u, t, at, r)
  \/ \E u \in Usernames : get_appointments(u)
  \/ \E u \in Usernames, id \in 1..MaxApptId : delete_appointment(u, id)

SpecAppt == InitAppt /\ [][NextAppt]_vars

-----------------------------------------------------------------------------
(* What the properties speak of, stated without the handlers' own helpers *)

\* m is empty or consists only of whitespace
Blank(m) == \A i \in 1..Len(m) : m[i] \in Whitespace

\* c is YES in any letter case, with nothing but whitespace around it
ReplyIsYES(c) ==
  \E i \in 1..(Len(c) - 2) :
    /\ \A k \in 1..(i - 1) : c[k] \in Whitespace
    /\ c[i] \in {"Y", "y"}
    /\ c[i + 1] \in {"E", "e"}
    /\ c[i + 2] \in {"S", "s"}
    /\ \A k \in (i + 3)..Len(c) : c[k] \in Whitespace

\* m contains one of the high-risk phrases, letter case ignored
HasHighRiskPhrase(m) ==
  \E k \in 1..Len(high_risk_keywords) :
    LET word == high_risk_keywords[k]
    IN  \E i \in 0..(Len(m) - Len(word)) :
          \A j \in 1..Len(word) : upper_char(m[i + j]) = upper_char(word[j])

\* D's exact text occurs in R
IsSubstring(D, R) ==
  \E i \in 1..(Len(R) - Len(D) + 1) : R[i] = D[1] /\ SubSeq(R, i, i + Len(D) - 1) = D

Range(s) == {s[i] : i \in 1..Len(s)}

IsRefusal(r) ==
  /\ r.kind = "ChatResponse"
  /\ r.response = RefusalText
  /\ r.sources = <<>>
  /\ r.confidence = "Not Applicable"
  /\ r.emergency = FALSE

-----------------------------------------------------------------------------
(* Properties *)

\* C1: a request whose classifier reply is anything other than YES never calls the
\* Document Selector or the Response Composer (the only provider call of the request
\* is the classification) and ends with the fixed refusal, no sources, confidence
\* Not Applicable and emergency false.
C1_OutOfScopeShortCircuits ==
  (classification_result.kind = "completion"
     /\ ~ReplyIsYES(classification_result.content))
  => /\ pc = "done"
     /\ calls = <<"classification">>
     /\ data = None
     /\ result = None
     /\ IsRefusal(returned)

C1_Witness ==
  /\ pc = "done"
  /\ classification_result.kind = "completion"
  /\ classification_result.content = TxtNO
  /\ IsRefusal(returned)

\* C2 as claimed: whenever a message with a high-risk phrase is answered with a
\* payload, whatever the classifier said, the payload has emergency true and
\* confidence High (Emergency Identified).
C2_EmergencyWhateverTheOutcome ==
  (pc = "done" /\ HasHighRiskPhrase(message) /\ returned.kind = "ChatResponse")
  => /\ returned.emergency = TRUE
     /\ returned.confidence = "High (Emergency Identified)"

\* C2 amended: a message with a high-risk phrase (letter case ignored) that is
\* classified in-scope and whose composition call returns a completion is answered
\* with emergency true and confidence High (Emergency Identified), whatever the
\* number of retrieved documents.
C2_EmergencyWhenFinalized ==
  (pc = "done" /\ HasHighRiskPhrase(message) /\ result.kind = "completion")
  => /\ returned.kind = "ChatResponse"
     /\ returned.emergency = TRUE
     /\ returned.confidence = "High (Emergency Identified)"

C2_Witness ==
  /\ pc = "done"
  /\ HasHighRiskPhrase(message)
  /\ message # lower(message)
  /\ result.kind = "completion"
  /\ context_docs = <<>>
  /\ returned.confidence = "High (Emergency Identified)"

\* C3: on a selection reply R that carries a completion, llm_select_documents returns
\* (does not raise) a sequence that holds a store document D if and only if D's exact
\* text is a substring of R, and that is the store's own sequence restricted to those
\* documents: store order, no duplicates, nothing from outside the store.
C3_SubstringReconciliation ==
  (sel_out # None /\ sel_data.kind = "completion")
  => /\ sel_out.raised = FALSE
     /\ \A d \in 1..Len(documents) :
          (documents[d] \in Range(sel_out.docs))
            <=> IsSubstring(documents[d], sel_data.content)
     /\ sel_out.docs = SelectSeq(documents, LAMBDA doc : doc \in Range(sel_out.docs))

C3_Witness ==
  /\ sel_out # None
  /\ sel_data = Completion(Doc4 \o Doc1)
  /\ sel_out.docs = <<Doc1, Doc4>>

\* C4: a request whose message is empty or only whitespace ends at once with the
\* fixed please-enter-a-question reply (no sources, confidence Not Applicable,
\* emergency false) and makes no provider call.
C4_BlankRejected ==
  (pc # "idle" /\ Blank(message))
  => /\ pc = "done"
     /\ calls = <<>>
     /\ classification_result = None /\ data = None /\ result = None
     /\ returned.kind = "ChatResponse"
     /\ returned.response = PleaseEnterText
     /\ returned.sources = <<>>
     /\ returned.confidence = "Not Applicable"
     /\ returned.emergency = FALSE

C4_Witness ==
  /\ pc = "done"
  /\ message # <<>>
  /\ Blank(message)
  /\ returned.response = PleaseEnterText

\* C5: when the classification reply or the composition reply has no "choices", the
\* request ends with an HTTP 500 error and no ChatResponse payload; a classification
\* reply without "choices" is answered "Classification error", never with the
\* refusal, and neither the selector nor the composer is called after it.
C5_MissingChoicesIsServiceError ==
  /\ classification_result.kind = "no_choices"
     => /\ pc = "done"
        /\ returned.kind = "HTTPException"
        /\ returned.status_code = 500
        /\ returned.detail = "Classification error"
        /\ calls = <<"classification">>
        /\ data = None /\ result = None
  /\ result.kind = "no_choices"
     => /\ pc = "done"
        /\ returned.kind = "HTTPException"
        /\ returned.status_code = 500
        /\ returned.detail = "LLM error"

C5_Witness ==
  /\ pc = "done"
  /\ classification_result.kind = "no_choices"
  /\ returned.kind = "HTTPException"

\* C6 as claimed: whatever the selection call gave, the selector returned a sequence
\* and the request went on to the composition call.
C6_SelectorNeverRaises ==
  data # None => (Len(calls) = 3 /\ calls[3] = "composition")

\* C6 amended: the selector returns a sequence when the selection reply is a JSON
\* object without "choices" (the empty sequence) or carries a completion; without
\* "choices" the request goes on to composition with no documents and, if the
\* composition succeeds, completes with sources = []. When the selection call itself
\* raises or its "choices" holds no completion, the exception leaves the selector and
\* the request ends with a server error, the composer never called.
C6_SelectorDegradesOnMissingChoices ==
  /\ data.kind = "no_choices"
     => /\ context_docs = <<>>
        /\ Len(calls) = 3 /\ calls[3] = "composition"
        /\ (result.kind = "completion"
              => returned.kind = "ChatResponse" /\ returned.sources = <<>>)
  /\ data.kind = "completion"
     => (Len(calls) = 3 /\ calls[3] = "composition")
  /\ data.kind \in {"exception", "bad_choices"}
     => /\ pc = "done"
        /\ calls = <<"classification", "selection">>
        /\ returned.kind = "Exception"
        /\ returned.status_code = 500

C6_Witness ==
  /\ pc = "done"
  /\ data.kind = "no_choices"
  /\ returned.kind = "ChatResponse"
  /\ returned.sources = <<>>

\* C7: a request that reaches the final step (in-scope, composition returned a
\* completion) with no high-risk phrase in its message is answered with emergency
\* false and confidence High when at least one document was retrieved, Medium when
\* none was.
C7_ConfidenceByDocumentCount ==
  (pc = "done" /\ result.kind = "completion" /\ ~HasHighRiskPhrase(message))
  => /\ returned.kind = "ChatResponse"
     /\ returned.emergency = FALSE
     /\ Len(returned.sources) = Len(context_docs)
     /\ returned.confidence = (IF Len(context_docs) > 0 THEN "High" ELSE "Medium")

C7_Witness ==
  /\ pc = "done"
  /\ result.kind = "completion"
  /\ ~HasHighRiskPhrase(message)
  /\ context_docs = <<>>
  /\ returned.confidence = "Medium"

\* C8: a non-blank message goes on to document selection if and only if the
\* classifier's reply, trimmed and uppercased, is exactly YES; every other reply that
\* carries a completion is answered with the refusal.
C8_InScopeIffYES ==
  classification_result.kind = "completion"
  => /\ ReplyIsYES(classification_result.content)
          <=> (Len(calls) >= 2 /\ calls[2] = "selection")
     /\ ReplyIsYES(classification_result.content) <=> ~IsRefusal(returned)

C8_Witness ==
  /\ pc = "retrieving"
  /\ classification_result.kind = "completion"
  /\ classification_result.content # TxtYES
  /\ ReplyIsYES(classification_result.content)

\* C9: the provider calls of one request are a prefix of classification, selection,
\* composition, each made once: selection is called only after the classifier
\* answered YES, composition only after the selection call returned, and a call that
\* failed is the last call of the request.
C9_CallsInOrderOnce ==
  /\ \E n \in 0..3 : calls = SubSeq(<<"classification", "selection", "composition">>, 1, n)
  /\ Len(calls) >= 2
     => /\ classification_result.kind = "completion"
        /\ ReplyIsYES(classification_result.content)
  /\ Len(calls) >= 3 => data.kind \in {"no_choices", "completion"}
  /\ classification_result \in ProviderFailures
     => (pc = "done" /\ Len(calls) = 1)
  /\ data.kind \in {"exception", "bad_choices"} => (pc = "done" /\ Len(calls) = 2)
  /\ result \in ProviderFailures => (pc = "done" /\ Len(calls) = 3)
  /\ pc = "classifying" => (Len(calls) = 1 /\ classification_result = None)
  /\ pc = "retrieving" => (Len(calls) = 2 /\ data = None)
  /\ pc = "composing" => (Len(calls) = 3 /\ result = None)

C9_Witness ==
  /\ pc = "done"
  /\ calls = <<"classification", "selection", "composition">>
  /\ result.kind = "completion"

\* one stored appointment as GET /appointments lists it
ListedAs(a) ==
  [id |-> a.id, title |-> a.title,
   appointment_time |-> <<a.appointment_time.date, "T", a.appointment_time.time>>,
   recurring |-> a.recurring]

\* what a GET /appointments answer must be, and what the table must hold
C10_ListIsOwn ==
  /\ http.kind = "appointments"
     => http.body = {ListedAs(a) : a \in owned[http.username]}
  /\ appointments = UNION {owned[u] : u \in Usernames}
  /\ \A u \in Usernames : \A a \in owned[u] : a.user_id = user_by_name(u).id

\* a DELETE of an id the caller does not own
C10_ForeignDeleteRefused ==
  \A u \in Usernames, id \in 1..MaxApptId :
    (delete_appointment(u, id) /\ ~(\E a \in owned[u] : a.id = id))
    => /\ http'.kind = "HTTPException"
       /\ http'.status_code = 404
       /\ http'.detail = "Appointment not found"
       /\ appointments' = appointments

\* C10: appointments are isolated per user. Whatever the authenticated users have
\* created, listed and deleted, GET /appointments for a user lists exactly the
\* appointments that user created and has not deleted, and a DELETE by a user of an
\* id that does not exist or belongs to another user answers 404 Appointment not
\* found and leaves the table as it was.
C10_AppointmentsIsolated == [](C10_ListIsOwn) /\ [][C10_ForeignDeleteRefused]_vars

C10_Witness ==
  /\ http.kind = "HTTPException"
  /\ http.status_code = 404
  /\ owned["alice"] # {}
  /\ owned["bob"] # {}

====
